---- MODULE Spec2Model ----
(***************************************************************************)
(* Model of check_safebrowsing.py: a single-threaded run that reads a list *)
(* of URLs, splits it in batches, asks the threat-matching API about each  *)
(* batch (with bounded exponential-backoff retry) and sends an alert       *)
(* through the messaging API for every batch that has matches.             *)
(*                                                                         *)
(* Text read from the input file is a sequence of one-character strings;   *)
(* JSON values are tagged records; the environment (file content,          *)
(* environment variables, HTTP outcomes) is chosen nondeterministically.   *)
(***************************************************************************)
EXTENDS Integers, Sequences, FiniteSets, TLC

VARIABLES
    API_KEY,             \* os.getenv("GSB_API_KEY")
    TELEGRAM_BOT_TOKEN,  \* os.getenv("TELEGRAM_BOT_TOKEN")
    TELEGRAM_CHAT_ID,    \* os.getenv("TELEGRAM_CHAT_ID")
    file,                \* what is found at DOMAINS_FILE
    pc,                  \* position of the process in the script
    exitCode,            \* process exit status, -1 while running
    urls,                \* main: urls
    pos,                 \* chunked: the generator's index i
    batch,               \* main: batch
    batchNo,             \* number of batches taken from the generator so far
    total,               \* main: total
    attempt,             \* find_threats: iterations of "for _ in range(6)" begun
    backoff,             \* find_threats: backoff
    result,              \* main: result
    msg,                 \* main: msg, the lines of the alert (none before it is built)
    inflight,            \* HTTP requests sent and not yet answered
    posts,               \* HTTP posts made by the find_threats call in progress
    sleeps,              \* time.sleep durations of the find_threats call in progress
    log,                 \* log lines written since the last request was sent to
                         \* Safe Browsing (all of them before the first request)
    checked,             \* batch numbers handed to find_threats, in call order
    notified,            \* batch numbers whose alert was handed to send_telegram
    tgPosts,             \* HTTP posts made to the messaging API in this run
    raised,              \* the exception that ended the process, or None
    answers,             \* what the API answered to each post of the call in progress
    matched,             \* batch numbers whose result held a truthy "matches"
    failed,              \* batch numbers whose alert delivery failed
    leftover,            \* the backoff the previous find_threats call ended with
    gsbPosts,            \* HTTP posts made to the Safe Browsing API in this run
    fn,                  \* the function called on its own, or None
    arg,                 \* the arguments of that call
    ret                  \* what that call returned

vars == <<API_KEY, TELEGRAM_BOT_TOKEN, TELEGRAM_CHAT_ID, file, pc, exitCode,
          urls, pos, batch, batchNo, total, attempt, backoff, result, msg,
          inflight, posts, sleeps, log, checked, notified, tgPosts,
          raised, answers, matched, failed, leftover, gsbPosts, fn, arg, ret>>

(***************************************************************************)
(* Bounds of the model.                                                    *)
(***************************************************************************)
MaxBatches == 2      \* the longest input file fills MaxBatches batches
MaxLen == 5          \* the longest list handed to chunked on its own
MaxChunk == 3        \* the largest batch size handed to chunked on its own
MaxLines == 3        \* the longest file handed to read_urls on its own
MaxRecords == 3      \* the longest list of sample match records
MaxDistinct == 25    \* the most distinct URLs in a list of match records

(***************************************************************************)
(* Program constants.                                                      *)
(***************************************************************************)
BATCH_SIZE == 500
REQUEST_TIMEOUT == 15
TELEGRAM_TIMEOUT == 10
URL_CAP_Late == 20 + 1
URL_CAP == 20

None == "None"       \* an unset environment variable

Min(a, b) == IF a < b THEN a ELSE b

\* F(v), the value v being computed once
Bind(v, F(_)) == CHOOSE out \in {F(x) : x \in {v}} : TRUE

\* Python truthiness of an environment value (None and "" are falsy).
EnvTruthy(v) == v /= None /\ v /= ""

(***************************************************************************)
(* Text: a string is a sequence of one-character strings.                  *)
(***************************************************************************)
\* Characters without an escape in a string, written as they are.
U000B == ""      \* \v, line tabulation
U001C == ""      \* file separator
U001D == ""      \* group separator
U001E == ""      \* record separator
U001F == ""      \* unit separator
U0085 == ""      \* next line
U00A0 == " "      \* no-break space
U1680 == " "      \* ogham space mark

\* The characters c with c.isspace(), which str.strip() removes, of those a
\* string of this module can hold.  The alphabet of the model's texts is the
\* characters a string can hold: U+2000-U+200A, U+2028, U+2029, U+202F,
\* U+205F and U+3000, which str.strip() removes as well, are a lexical error
\* in a string, so they are in no text.
Whitespace ==
    {" ", "\t", "\n", "\r", "\f", U000B, U001C, U001D, U001E, U001F, U0085, U00A0,
     U1680}

RECURSIVE lstrip(_)
lstrip(s) ==
    IF s /= <<>> /\ Head(s) \in Whitespace THEN lstrip(Tail(s)) ELSE s

RECURSIVE rstrip(_)
rstrip(s) ==
    IF s /= <<>> /\ s[Len(s)] \in Whitespace
    THEN rstrip(SubSeq(s, 1, Len(s) - 1)) ELSE s

\* str.strip()
strip(s) == rstrip(lstrip(s))

\* str.startswith(prefix)
startswith(s, prefix) ==
    Len(s) >= Len(prefix) /\ SubSeq(s, 1, Len(prefix)) = prefix

HTTP == <<"h", "t", "t", "p", ":", "/", "/">>
HTTPS == <<"h", "t", "t", "p", "s", ":", "/", "/">>

\* normalize that knows the prefix http:// only
normalize_HttpOnly(ln) == IF startswith(ln, HTTP) THEN ln ELSE HTTP \o ln

\* the expression appended to urls for one non-blank stripped line
normalize(ln) ==
    IF startswith(ln, HTTP) \/ startswith(ln, HTTPS) THEN ln ELSE HTTP \o ln

NonBlank_All(ln) == TRUE
NonBlank(ln) == ln /= <<>>

\* the loop of lines 29-32 over the stripped lines
keep_lines(lines) ==
    Bind(SelectSeq(lines, NonBlank),
         LAMBDA kept : [i \in 1..Len(kept) |-> normalize(kept[i])])

(***************************************************************************)
(* What is found at a path: nothing (exists is FALSE), something that      *)
(* open() or the decoding of its bytes raises error on, or a text.         *)
(***************************************************************************)
NoFile == [exists |-> FALSE, error |-> None, text |-> <<>>]
BadFile(e) == [exists |-> TRUE, error |-> e, text |-> <<>>]
TextFile(t) == [exists |-> TRUE, error |-> None, text |-> t]

\* position i ends a line of a file opened in text mode (universal newlines):
\* "\n", or "\r" that no "\n" follows
is_line_end(t, i) == t[i] = "\n" \/ (t[i] = "\r" /\ ~(i < Len(t) /\ t[i + 1] = "\n"))

\* the positions in lo..hi that end a line, in order
RECURSIVE line_ends(_, _, _)
line_ends(t, lo, hi) ==
    IF lo > hi THEN <<>>
    ELSE IF lo = hi THEN (IF is_line_end(t, lo) THEN <<lo>> ELSE <<>>)
    ELSE line_ends(t, lo, (lo + hi) \div 2) \o line_ends(t, (lo + hi) \div 2 + 1, hi)

\* the strings "for ln in f" yields: every line end is read as "\n", and a last
\* line without a line end is yielded as it is
file_lines(t) ==
    Bind(line_ends(t, 1, Len(t)), LAMBDA e :
        LET full == [k \in 1..Len(e) |->
                        LET from == IF k = 1 THEN 1 ELSE e[k - 1] + 1
                            to == IF t[e[k]] = "\n" /\ e[k] > from /\ t[e[k] - 1] = "\r"
                                  THEN e[k] - 2 ELSE e[k] - 1
                        IN  SubSeq(t, from, to) \o <<"\n">>]
            last == IF e = <<>> THEN 0 ELSE e[Len(e)]
        IN  IF last < Len(t) THEN Append(full, SubSeq(t, last + 1, Len(t))) ELSE full)

\* read_urls(path), given what is found at the path: the list returned is
\* [ok |-> TRUE, urls |-> ...], a raised exception [ok |-> FALSE, exc |-> ...]
read_urls(f) ==
    IF ~f.exists THEN [ok |-> TRUE, urls |-> <<>>]
    ELSE IF f.error /= None THEN [ok |-> FALSE, exc |-> f.error]
    ELSE Bind(file_lines(f.text), LAMBDA lines :
             [ok |-> TRUE,
              urls |-> keep_lines([i \in 1..Len(lines) |-> strip(lines[i])])])

\* the slice it[i:i+n-1]
chunk_Short(it, i, n) == SubSeq(it, i + 1, Min(i + n - 1, Len(it)))

\* the slice it[i:i+n] that chunked yields at index i (0-based)
chunk(it, i, n) == SubSeq(it, i + 1, Min(i + n, Len(it)))

RECURSIVE chunked_from(_, _, _)
chunked_from(it, i, n) ==
    IF i >= Len(it) THEN <<>>
    ELSE <<chunk(it, i, n)>> \o chunked_from(it, i + n, n)

\* list(chunked(it, n))
chunked(it, n) == chunked_from(it, 0, n)

(***************************************************************************)
(* JSON values as Python sees them after r.json(): tagged records.         *)
(*   null, num n, str s (a text), list xs (a sequence of values),          *)
(*   obj kv (a sequence of <<key, value>> pairs with distinct keys).       *)
(***************************************************************************)
JNull == [t |-> "null"]
JNum(n) == [t |-> "num", n |-> n]
JStr(s) == [t |-> "str", s |-> s]
JList(xs) == [t |-> "list", xs |-> xs]
JObj(kv) == [t |-> "obj", kv |-> kv]

EmptyDict == JObj(<<>>)

K_matches == <<"m", "a", "t", "c", "h", "e", "s">>
K_threat == <<"t", "h", "r", "e", "a", "t">>
K_url == <<"u", "r", "l">>
K_threatType == <<"t", "h", "r", "e", "a", "t", "T", "y", "p", "e">>
S_unknown == <<"u", "n", "k", "n", "o", "w", "n">>
S_UNKNOWN == <<"U", "N", "K", "N", "O", "W", "N">>

\* bool(v)
Truthy(v) ==
    CASE v.t = "null" -> FALSE
      [] v.t = "num" -> v.n /= 0
      [] v.t = "str" -> v.s /= <<>>
      [] v.t = "list" -> v.xs /= <<>>
      [] v.t = "obj" -> v.kv /= <<>>

\* len(v) is defined: num and null raise TypeError
HasLen(v) == v.t \in {"str", "list", "obj"}

\* len(v)
PyLen(v) ==
    CASE v.t = "str" -> Len(v.s)
      [] v.t = "list" -> Len(v.xs)
      [] v.t = "obj" -> Len(v.kv)

\* the values "for m in v" visits
Iterate(v) ==
    CASE v.t = "str" -> [i \in 1..Len(v.s) |-> JStr(<<v.s[i]>>)]
      [] v.t = "list" -> v.xs
      [] v.t = "obj" -> [i \in 1..Len(v.kv) |-> JStr(v.kv[i][1])]

\* hash(v) is defined: list and dict raise TypeError
Hashable(v) == v.t \notin {"list", "obj"}

\* d.get(k, default) on a dict d
DictGet(d, k, default) ==
    IF \E i \in 1..Len(d.kv) : d.kv[i][1] = k
    THEN d.kv[CHOOSE i \in 1..Len(d.kv) : d.kv[i][1] = k][2]
    ELSE default

(***************************************************************************)
(* Ordering of texts as sorted() orders str: by code point, then length.   *)
(***************************************************************************)
Ord(c) ==
    CASE c = "A" -> 65 [] c = "B" -> 66 [] c = "C" -> 67 [] c = "D" -> 68
      [] c = "E" -> 69 [] c = "F" -> 70 [] c = "G" -> 71 [] c = "H" -> 72
      [] c = "I" -> 73 [] c = "J" -> 74 [] c = "K" -> 75 [] c = "L" -> 76
      [] c = "M" -> 77 [] c = "N" -> 78 [] c = "O" -> 79 [] c = "P" -> 80
      [] c = "Q" -> 81 [] c = "R" -> 82 [] c = "S" -> 83 [] c = "T" -> 84
      [] c = "U" -> 85 [] c = "V" -> 86 [] c = "W" -> 87 [] c = "X" -> 88
      [] c = "Y" -> 89 [] c = "Z" -> 90 [] c = "_" -> 95

RECURSIVE StrLess(_, _)
StrLess(a, b) ==
    IF b = <<>> THEN FALSE
    ELSE IF a = <<>> THEN TRUE
    ELSE IF Head(a) = Head(b) THEN StrLess(Tail(a), Tail(b))
    ELSE Ord(Head(a)) < Ord(Head(b))

\* sorted(types) for a set of texts
RECURSIVE sorted(_)
sorted(S) ==
    IF S = {} THEN <<>>
    ELSE LET m == CHOOSE x \in S : \A y \in S \ {x} : StrLess(x, y)
         IN  <<m>> \o sorted(S \ {m})

(***************************************************************************)
(* build_tg_message.  A raised exception is the record                     *)
(* [ok |-> FALSE, exc |-> name]; a returned text is [ok |-> TRUE, ...]     *)
(* holding the lines that "\n".join(lines) joins.                          *)
(***************************************************************************)
Raise(e) == [ok |-> FALSE, exc |-> e]

\* by_url[u] = {t}: the types seen earlier for u are lost
setdefault_add_Overwrite(by_url, u, t) ==
    IF \E i \in 1..Len(by_url) : by_url[i].u = u
    THEN [i \in 1..Len(by_url) |->
            IF by_url[i].u = u THEN [u |-> u, types |-> {t}] ELSE by_url[i]]
    ELSE Append(by_url, [u |-> u, types |-> {t}])

\* by_url.setdefault(u, set()).add(t) on the insertion-ordered dict by_url
setdefault_add(by_url, u, t) ==
    IF \E i \in 1..Len(by_url) : by_url[i].u = u
    THEN [i \in 1..Len(by_url) |->
            IF by_url[i].u = u
            THEN [u |-> u, types |-> by_url[i].types \cup {t}]
            ELSE by_url[i]]
    ELSE Append(by_url, [u |-> u, types |-> {t}])

\* the loop "for m in matches" over the values ms, starting from by_url
RECURSIVE group(_, _)
group(ms, by_url) ==
    IF ms = <<>> THEN [ok |-> TRUE, by_url |-> by_url]
    ELSE LET m == Head(ms) IN
         IF m.t /= "obj" THEN Raise("AttributeError")
         ELSE LET th == DictGet(m, K_threat, EmptyDict) IN
              IF th.t /= "obj" THEN Raise("AttributeError")
              ELSE LET u == DictGet(th, K_url, JStr(S_unknown))
                       t == DictGet(m, K_threatType, JStr(S_UNKNOWN))
                   IN  IF ~Hashable(u) \/ ~Hashable(t) THEN Raise("TypeError")
                       ELSE Bind(setdefault_add(by_url, u, t),
                                 LAMBDA added : group(Tail(ms), added))

\* the line appended for entry (u, types) of by_url
url_line(e) ==
    [kind |-> "url", url |-> e.u, types |-> sorted({t.s : t \in e.types})]

\* the loop "for i,(u,types) in enumerate(by_url.items())" from index i
RECURSIVE render(_, _)
render(by_url, i) ==
    IF i >= Len(by_url) THEN [ok |-> TRUE, lines |-> <<>>]
    ELSE IF i >= URL_CAP THEN [ok |-> TRUE, lines |-> <<[kind |-> "more"]>>]
    ELSE IF \E t \in by_url[i + 1].types : t.t /= "str" THEN Raise("TypeError")
    ELSE Bind(render(by_url, i + 1), LAMBDA rest :
             IF ~rest.ok THEN rest
             ELSE [ok |-> TRUE, lines |-> <<url_line(by_url[i + 1])>> \o rest.lines])

build_tg_message(matches, batch_total) ==
    IF ~HasLen(matches) THEN Raise("TypeError")
    ELSE Bind(group(Iterate(matches), <<>>), LAMBDA g :
             IF ~g.ok THEN g
             ELSE Bind(render(g.by_url, 0), LAMBDA r :
                      IF ~r.ok THEN r
                      ELSE [ok |-> TRUE,
                            text |-> <<[kind |-> "title"],
                                       [kind |-> "count", matches |-> PyLen(matches),
                                        checked |-> batch_total]>>
                                     \o r.lines
                                     \o <<[kind |-> "action"]>>]))

(***************************************************************************)
(* The environment: input files, environment variables, HTTP outcomes.     *)
(***************************************************************************)
LineSamples ==
    << <<"a", "\n">>,
       <<"h", "t", "t", "p", ":", "/", "/", "b", "\n">>,
       <<" ", "h", "t", "t", "p", "s", ":", "/", "/", "c", " ", "\n">>,
       <<"\t", U00A0, "d", U000B, U1680, "\n">> >>

BlankLine == <<" ", U0085, U1680, "\n">>

\* the first k sample lines, one after another
RECURSIVE SampleText(_)
SampleText(k) == IF k = 0 THEN <<>> ELSE SampleText(k - 1) \o LineSamples[k]

\* a file of n non-blank lines between two blank ones: the sample lines first,
\* then bare domains
FileOf(n) ==
    TextFile(BlankLine
             \o SampleText(Min(n, Len(LineSamples)))
             \o [i \in 1..(2 * (n - Min(n, Len(LineSamples)))) |->
                    IF i % 2 = 1 THEN "a" ELSE "\n"]
             \o <<"\n">>)

\* no line, one line, and the lengths around the last batch boundary
FileLens ==
    {0, 1, (MaxBatches - 1) * BATCH_SIZE, (MaxBatches - 1) * BATCH_SIZE + 1}

\* exceptions of open() on a path that exists, and of decoding its bytes
FileErrors == {"IsADirectoryError", "PermissionError", "UnicodeDecodeError"}

FileSamples ==
    {NoFile, TextFile(<<>>)}
        \cup {BadFile(e) : e \in FileErrors}
        \cup {FileOf(n) : n \in FileLens}

EnvSamples == {None, "", "x"}

\* <<TELEGRAM_BOT_TOKEN, TELEGRAM_CHAT_ID>>
TgEnvSamples == {<<None, None>>, <<"x", None>>, <<"", "x">>, <<"x", "x">>}

GsbStatuses == {200, 201, 400, 403, 404, 429, 500, 501, 502, 503, 504}
TgStatuses == {200, 399, 400, 403, 429, 500}

S_MALWARE == <<"M", "A", "L", "W", "A", "R", "E">>
S_SOCIAL == <<"S", "O", "C", "I", "A", "L", "_", "E", "N", "G", "I", "N", "E",
              "E", "R", "I", "N", "G">>
U_a == <<"h", "t", "t", "p", ":", "/", "/", "a">>
U_b == <<"h", "t", "t", "p", ":", "/", "/", "b">>

Match(u, t) ==
    JObj(<< <<K_threat, JObj(<< <<K_url, u>> >>)>>, <<K_threatType, t>> >>)

WithMatches(v) == JObj(<< <<K_matches, v>> >>)

\* a response body: text that r.json() cannot parse, or the value it returns
Unparsable == [json |-> FALSE]
Parsed(v) == [json |-> TRUE, val |-> v]

BodySamples ==
    << Unparsable,
       Parsed(EmptyDict),
       Parsed(WithMatches(JList(<<>>))),
       Parsed(WithMatches(JNull)),
       Parsed(WithMatches(JList(<<Match(JStr(U_a), JStr(S_MALWARE))>>))),
       Parsed(WithMatches(JList(<<Match(JStr(U_a), JStr(S_SOCIAL)),
                                  Match(JStr(U_b), JStr(S_MALWARE)),
                                  Match(JStr(U_a), JStr(S_MALWARE))>>))),
       Parsed(WithMatches(JList(<<EmptyDict>>))),
       Parsed(JList(<<>>)),
       Parsed(JNull),
       Parsed(WithMatches(JList(<<JStr(U_a)>>))),
       Parsed(WithMatches(JNum(5))),
       Parsed(WithMatches(JList(<<JObj(<< <<K_threat, JStr(U_a)>> >>)>>))),
       Parsed(WithMatches(JList(<<Match(JList(<<>>), JStr(S_MALWARE))>>))),
       Parsed(WithMatches(JList(<<Match(JStr(U_a), JNum(7))>>))) >>

Unset == [t |-> "unset"]

\* a call of logging.info/warning/error: the format string and, of its
\* arguments, the numbers (status codes, seconds, counts); the exception and
\* response texts it formats are not part of the state
LogLine(level, text, args) == [level |-> level, msg |-> text, args |-> args]

(***************************************************************************)
(* Module level: lines 6-22.                                               *)
(***************************************************************************)
\* the interpreter before the module's first statement
Start ==
    /\ pc = "import"
    /\ exitCode = -1
    /\ urls = <<>>
    /\ pos = 0
    /\ batch = <<>>
    /\ batchNo = 0
    /\ total = 0
    /\ attempt = 0
    /\ backoff = 0
    /\ result = Unset
    /\ msg = <<>>
    /\ inflight = {}
    /\ posts = 0
    /\ sleeps = <<>>
    /\ log = <<>>
    /\ checked = <<>>
    /\ notified = <<>>
    /\ tgPosts = 0
    /\ raised = None
    /\ answers = <<>>
    /\ matched = <<>>
    /\ failed = <<>>
    /\ leftover = 0
    /\ gsbPosts = 0
    /\ fn = None
    /\ arg = Unset
    /\ ret = Unset

Init ==
    /\ API_KEY \in EnvSamples
    /\ \E tg \in TgEnvSamples :
          /\ TELEGRAM_BOT_TOKEN = tg[1]
          /\ TELEGRAM_CHAT_ID = tg[2]
    /\ file \in FileSamples
    /\ Start

env == <<API_KEY, TELEGRAM_BOT_TOKEN, TELEGRAM_CHAT_ID, file>>
coord == <<urls, pos, batch, batchNo, total, checked>>
hist == <<answers, matched, failed>>
count == <<leftover, gsbPosts>>
call == <<fn, arg, ret>>

\* an uncaught exception ends the process with status 1
Crash(e) ==
    /\ pc' = "crashed"
    /\ exitCode' = 1
    /\ raised' = e

\* "if not API_KEY: raise SystemExit(...)"
ModuleInit ==
    /\ pc = "import"
    /\ IF ~EnvTruthy(API_KEY)
       THEN /\ pc' = "exit"
            /\ exitCode' = 1
            /\ raised' = "SystemExit"
       ELSE /\ pc' = "main"
            /\ UNCHANGED <<exitCode, raised>>
    /\ UNCHANGED <<env, call, count,
                   coord, attempt, backoff, result, msg, inflight, posts,
                   sleeps, log, notified, tgPosts, hist>>

(***************************************************************************)
(* main: lines 93-108.                                                     *)
(***************************************************************************)
\* lines 94-97
MainStart ==
    /\ pc = "main"
    /\ \E r \in {read_urls(file)} :
       IF ~r.ok
       THEN /\ Crash(r.exc)
            /\ UNCHANGED <<urls, log>>
       ELSE /\ urls' = r.urls
            /\ IF r.urls = <<>>
               THEN /\ log' = Append(log, LogLine("INFO", "No URLs to check.", <<>>))
                    /\ pc' = "exit"
                    /\ exitCode' = 0
               ELSE /\ pc' = "for_batch"
                    /\ UNCHANGED <<log, exitCode>>
            /\ UNCHANGED raised
    /\ total' = 0
    /\ UNCHANGED <<env, call, count,
                   pos, batch, batchNo, checked, attempt, backoff, result,
                   msg, inflight, posts, sleeps, notified, tgPosts, hist>>

\* lines 98-100 and 40-50: the generator yields the next batch, main adds its
\* length to total and calls find_threats, which starts with backoff = 1.
\* Values of the previous iteration that the program no longer reads (result,
\* msg) are dropped from the state, and the log starts anew.
InitialBackoff_2 == 1 + 1
InitialBackoff == 1

\* NextBatch with backoff kept from the previous call (a backoff that is not
\* a local of find_threats)
NextBatch_Carry ==
    /\ pc = "for_batch"
    /\ pos < Len(urls)
    /\ batch' = chunk(urls, pos, BATCH_SIZE)
    /\ pos' = pos + BATCH_SIZE
    /\ batchNo' = batchNo + 1
    /\ total' = total + Len(batch')
    /\ checked' = Append(checked, batchNo')
    /\ backoff' = IF batchNo = 0 THEN InitialBackoff ELSE backoff
    /\ attempt' = 0
    /\ posts' = 0
    /\ sleeps' = <<>>
    /\ log' = <<>>
    /\ result' = Unset
    /\ msg' = <<>>
    /\ answers' = <<>>
    /\ leftover' = backoff
    /\ pc' = "ft_for"
    /\ UNCHANGED <<env, call, gsbPosts, urls, exitCode, inflight, notified,
                   tgPosts, raised, matched, failed>>

NextBatch ==
    /\ pc = "for_batch"
    /\ pos < Len(urls)
    /\ batch' = chunk(urls, pos, BATCH_SIZE)
    /\ pos' = pos + BATCH_SIZE
    /\ batchNo' = batchNo + 1
    /\ total' = total + Len(batch')
    /\ checked' = Append(checked, batchNo')
    /\ backoff' = InitialBackoff
    /\ attempt' = 0
    /\ posts' = 0
    /\ sleeps' = <<>>
    /\ log' = <<>>
    /\ result' = Unset
    /\ msg' = <<>>
    /\ answers' = <<>>
    /\ leftover' = backoff
    /\ pc' = "ft_for"
    /\ UNCHANGED <<env, call, gsbPosts, urls, exitCode, inflight, notified, tgPosts, raised,
                   matched, failed>>

\* line 108, when the generator is exhausted
Finish ==
    /\ pc = "for_batch"
    /\ pos >= Len(urls)
    /\ log' = Append(log, LogLine("INFO", "Finished. Total processed: %d", <<total>>))
    /\ pc' = "exit"
    /\ exitCode' = 0
    /\ UNCHANGED <<env, call, count,
                   coord, attempt, backoff, result, msg, inflight, posts,
                   sleeps, notified, tgPosts, raised, hist>>

(***************************************************************************)
(* find_threats: lines 51-63.                                              *)
(***************************************************************************)
Attempts_7 == 6 + 1
Attempts == 6

RetryStatuses_No503 == {429, 500, 502, 504}
RetryStatuses_All == {s \in GsbStatuses : s /= 200}
RetryStatuses == {429, 500, 502, 503, 504}

NextBackoff_Inc(b) == b + 1
NextBackoff(b) == b * 2

GsbRequest(entries) ==
    [api |-> "threatMatches:find", entries |-> entries, timeout |-> REQUEST_TIMEOUT]

\* line 53: the request of the next iteration of "for _ in range(6)" is sent
\* "while True" in place of "for _ in range(6)": no attempt is used up
Post_WhileTrue ==
    /\ pc = "ft_for"
    /\ attempt' = attempt
    /\ posts' = posts + 1
    /\ leftover' = 0
    /\ inflight' = inflight \cup {GsbRequest(batch)}
    /\ pc' = "ft_wait"
    /\ log' = <<>>
    /\ UNCHANGED <<env, call, coord, exitCode, backoff, result, msg, sleeps,
                   notified, tgPosts, raised, hist>>

\* the request is sent and the loop goes on without waiting for its answer
Post_NoWait ==
    /\ pc = "ft_for"
    /\ attempt < Attempts
    /\ attempt' = attempt + 1
    /\ posts' = posts + 1
    /\ leftover' = 0
    /\ inflight' = inflight \cup {GsbRequest(batch)}
    /\ pc' = "ft_for"
    /\ log' = <<>>
    /\ UNCHANGED <<env, call, coord, exitCode, backoff, result, msg, sleeps,
                   notified, tgPosts, raised, hist>>

Post ==
    /\ pc = "ft_for"
    /\ attempt < Attempts
    /\ attempt' = attempt + 1
    /\ posts' = posts + 1
    /\ leftover' = 0
    /\ inflight' = inflight \cup {GsbRequest(batch)}
    /\ pc' = "ft_wait"
    /\ log' = <<>>
    /\ UNCHANGED <<env, call, coord, exitCode, backoff, result, msg, sleeps,
                   notified, tgPosts, raised, hist>>

FtSend == Post /\ UNCHANGED gsbPosts

\* the same step in a run that counts its Safe Browsing requests
FtSendCounted == Post /\ gsbPosts' = gsbPosts + 1

\* "time.sleep(backoff); backoff*=2; continue"
SleepAndRetry ==
    /\ sleeps' = Append(sleeps, backoff)
    /\ backoff' = NextBackoff(backoff)
    /\ pc' = "ft_for"
    /\ UNCHANGED <<result, matched>>

\* "if matches:" is taken for the returned dict v
HasMatches(v) == v.t = "obj" /\ Truthy(DictGet(v, K_matches, JList(<<>>)))

\* what the API answered, as the retry policy classifies answers
TransientStatuses == {429, 500, 502, 503, 504}

Answer(status, body) ==
    IF status = 200
    THEN IF body.json THEN [kind |-> "ok", val |-> body.val]
         ELSE [kind |-> "unparsable"]
    ELSE IF status \in TransientStatuses THEN [kind |-> "transient"]
    ELSE [kind |-> "other", status |-> status]

\* "return v" out of find_threats
FtReturn(v) ==
    /\ result' = v
    /\ matched' = IF HasMatches(v) THEN Append(matched, batchNo) ELSE matched
    /\ pc' = "ft_return"
    /\ UNCHANGED <<sleeps, backoff>>

\* lines 54-55: requests.post raises requests.RequestException
FtException ==
    /\ pc = "ft_wait"
    /\ inflight' = {}
    /\ answers' = Append(answers, [kind |-> "exception"])
    /\ log' = Append(log, LogLine("ERROR", "Request failed: %s", <<>>))
    /\ SleepAndRetry
    /\ UNCHANGED <<env, call, count,
                   coord, exitCode, attempt, msg, posts, notified, tgPosts,
                   raised, failed>>

\* OnOk with "continue" in place of "return {}" after "Invalid JSON"
OnOk_RetryInvalid(body) ==
    IF body.json
    THEN /\ FtReturn(body.val)
         /\ UNCHANGED log
    ELSE /\ log' = Append(log, LogLine("ERROR", "Invalid JSON", <<>>))
         /\ SleepAndRetry

\* lines 56-58: status 200
OnOk(body) ==
    IF body.json
    THEN /\ FtReturn(body.val)
         /\ UNCHANGED log
    ELSE /\ log' = Append(log, LogLine("ERROR", "Invalid JSON", <<>>))
         /\ FtReturn(EmptyDict)

\* lines 59-61
OnRetryStatus(status) ==
    /\ log' = Append(log, LogLine("WARNING", "Rate/server error %s. Backoff %ss",
                                  <<status, backoff>>))
    /\ SleepAndRetry

\* line 62
OnUnexpected(status) ==
    /\ log' = Append(log, LogLine("ERROR", "Unexpected %s: %s", <<status>>))
    /\ FtReturn(EmptyDict)

\* lines 56-62: requests.post returns a response
FtResponse ==
    /\ pc = "ft_wait"
    /\ inflight' = {}
    /\ \E status \in GsbStatuses :
          IF status = 200
          THEN \E b \in 1..Len(BodySamples) :
                  /\ answers' = Append(answers, Answer(status, BodySamples[b]))
                  /\ OnOk(BodySamples[b])
          ELSE /\ answers' = Append(answers, Answer(status, Unparsable))
               /\ IF status \in RetryStatuses THEN OnRetryStatus(status)
                  ELSE OnUnexpected(status)
    /\ UNCHANGED <<env, call, count,
                   coord, exitCode, attempt, msg, posts, notified, tgPosts,
                   raised, failed>>

\* FtExhausted without its logging.error call
FtExhausted_NoLog ==
    /\ pc = "ft_for"
    /\ attempt >= Attempts
    /\ FtReturn(EmptyDict)
    /\ UNCHANGED <<env, call, count,
                   coord, exitCode, attempt, msg, inflight, posts, notified,
                   tgPosts, raised, answers, failed, log>>

\* line 63: the loop ran out of iterations
FtExhausted ==
    /\ pc = "ft_for"
    /\ attempt >= Attempts
    /\ log' = Append(log, LogLine("ERROR", "Exceeded retries.", <<>>))
    /\ FtReturn(EmptyDict)
    /\ UNCHANGED <<env, call, count,
                   coord, exitCode, attempt, msg, inflight, posts, notified,
                   tgPosts, raised, answers, failed>>

(***************************************************************************)
(* main after find_threats returned (lines 101-107) and send_telegram      *)
(* (lines 65-77).                                                          *)
(***************************************************************************)
Configured_Or == EnvTruthy(TELEGRAM_BOT_TOKEN) \/ EnvTruthy(TELEGRAM_CHAT_ID)
Configured == EnvTruthy(TELEGRAM_BOT_TOKEN) /\ EnvTruthy(TELEGRAM_CHAT_ID)

TgRequest(text) ==
    [api |-> "sendMessage", chat_id |-> TELEGRAM_CHAT_ID, text |-> text,
     timeout |-> TELEGRAM_TIMEOUT]

MatchesLine == LogLine("INFO", "Matches: %s", <<>>)

\* lines 101-104 (and 66-71 inside send_telegram, up to the HTTP post), or
\* lines 101, 106-107
Coordinate ==
    /\ pc = "ft_return"
    /\ IF result.t /= "obj"
       THEN /\ Crash("AttributeError")
            /\ UNCHANGED <<msg, notified, log, inflight, tgPosts>>
       ELSE LET matches == DictGet(result, K_matches, JList(<<>>)) IN
            IF ~Truthy(matches)
            THEN /\ log' = Append(log, LogLine("INFO", "No matches in batch of %d",
                                               <<Len(batch)>>))
                 /\ pc' = "for_batch"
                 /\ UNCHANGED <<msg, notified, inflight, tgPosts, exitCode, raised>>
            ELSE \E m \in {build_tg_message(matches, Len(batch))} :
                 IF ~m.ok
                 THEN /\ Crash(m.exc)
                      /\ UNCHANGED <<msg, notified, log, inflight, tgPosts>>
                 ELSE /\ msg' = m.text
                      /\ notified' = Append(notified, batchNo)
                      /\ UNCHANGED <<exitCode, raised>>
                      /\ IF ~Configured
                         THEN /\ log' = log \o <<LogLine("INFO", "Telegram not configured.", <<>>),
                                                 MatchesLine>>
                              /\ pc' = "for_batch"
                              /\ UNCHANGED <<inflight, tgPosts>>
                         ELSE /\ inflight' = inflight \cup {TgRequest(m.text)}
                              /\ tgPosts' = tgPosts + 1
                              /\ pc' = "tg_wait"
                              /\ UNCHANGED log
    /\ UNCHANGED <<env, call, count,
                   coord, attempt, backoff, result, posts, sleeps, hist>>

\* lines 72-75, then line 105
TgResponse ==
    /\ pc = "tg_wait"
    /\ inflight' = {}
    /\ \E status \in TgStatuses :
          /\ log' = log \o <<IF status >= 400
                             THEN LogLine("ERROR", "Telegram error %s: %s", <<status>>)
                             ELSE LogLine("INFO", "Telegram notified.", <<>>),
                             MatchesLine>>
          /\ failed' = IF status >= 400 THEN Append(failed, batchNo) ELSE failed
    /\ pc' = "for_batch"
    /\ UNCHANGED <<env, call, count,
                   coord, exitCode, attempt, backoff, result, msg, posts,
                   sleeps, notified, tgPosts, raised, answers, matched>>

\* lines 76-77, then line 105
TgException ==
    /\ pc = "tg_wait"
    /\ inflight' = {}
    /\ log' = log \o <<LogLine("ERROR", "Telegram exception: %s", <<>>), MatchesLine>>
    /\ failed' = Append(failed, batchNo)
    /\ pc' = "for_batch"
    /\ UNCHANGED <<env, call, count,
                   coord, exitCode, attempt, backoff, result, msg, posts,
                   sleeps, notified, tgPosts, raised, answers, matched>>

Next ==
    \/ ModuleInit
    \/ MainStart
    \/ NextBatch
    \/ Finish
    \/ FtSend
    \/ FtException
    \/ FtResponse
    \/ FtExhausted
    \/ Coordinate
    \/ TgResponse
    \/ TgException

Spec == Init /\ [][Next]_vars

(***************************************************************************)
(* Runs that count their Safe Browsing requests, with the API key and the  *)
(* messaging credentials set, in which every HTTP call is answered or      *)
(* fails within its timeout and the interpreter keeps running: a step that *)
(* can be taken is taken.                                                  *)
(***************************************************************************)
\* one entry, a full batch, and one entry more than a batch
CountedLens == {1, BATCH_SIZE, BATCH_SIZE + 1}

InitCounted ==
    /\ API_KEY = "x"
    /\ TELEGRAM_BOT_TOKEN = "x"
    /\ TELEGRAM_CHAT_ID = "x"
    /\ file \in {FileOf(n) : n \in CountedLens}
    /\ Start

NextCounted ==
    \/ ModuleInit
    \/ MainStart
    \/ NextBatch
    \/ Finish
    \/ FtSendCounted
    \/ FtException
    \/ FtResponse
    \/ FtExhausted
    \/ Coordinate
    \/ TgResponse
    \/ TgException

\* every step changes pc, so a step that changes pc is any step
FairSpec == InitCounted /\ [][NextCounted]_vars /\ WF_pc(NextCounted)

(***************************************************************************)
(* The functions called on their own: chunked (lines 35-37), read_urls     *)
(* (lines 24-33) and build_tg_message (lines 79-91) applied to arguments   *)
(* drawn from bounded sets.  pc is "call" before the call and "returned"   *)
(* after it; the variables of a run keep their initial values.             *)
(***************************************************************************)
Seqs(S, n) == UNION {[1..k -> S] : k \in 0..n}

\* the sequences of ss, one after another
RECURSIVE Concat(_)
Concat(ss) == IF ss = <<>> THEN <<>> ELSE Head(ss) \o Concat(Tail(ss))

\* chunked(it, n): lists of up to MaxLen entries, sizes up to MaxChunk
ChunkArgs == [it : Seqs({U_a, U_b}, MaxLen), n : 1..MaxChunk]

\* read_urls(path): no file, or a file of up to MaxLines lines
ReadLineSamples ==
    { <<"a", "\n">>,
      <<"b">>,
      <<"h", "t", "t", "p", ":", "/", "/", "b", "\n">>,
      <<" ", "h", "t", "t", "p", "s", ":", "/", "/", "c", " ", "\r", "\n">>,
      <<"H", "T", "T", "P", ":", "/", "/", "a", "\n">>,
      <<"h", "t", "t", "p", ":", "/", "a", "\n">>,
      <<"\n">>,
      <<" ", "\t", "\f", "\n">>,
      <<"\f", "a", "\r", "b", "\n">>,
      <<U000B, U001C, U001D, "x", U001E, U001F, U000B, "\n">>,
      <<U0085, U00A0, "\n">>,
      <<"a", U00A0, "\n">>,
      <<U1680, "b", U1680, "\n", U1680, "\n">> }

ReadArgs ==
    {NoFile}
        \cup {BadFile(e) : e \in FileErrors}
        \cup {TextFile(Concat(ls)) : ls \in Seqs(ReadLineSamples, MaxLines)}

\* build_tg_message(matches, batch_total): every list of up to MaxRecords sample
\* records, and lists over D distinct URLs for every D up to MaxDistinct
Digits == <<"0", "1", "2", "3", "4", "5", "6", "7", "8", "9">>
Url(j) == JStr(U_a \o <<Digits[(j \div 10) + 1], Digits[(j % 10) + 1]>>)

RecordSamples ==
    { Match(JStr(U_a), JStr(S_MALWARE)),
      Match(JStr(U_a), JStr(S_SOCIAL)),
      Match(JStr(U_b), JStr(S_MALWARE)),
      JObj(<< <<K_threat, JObj(<< <<K_url, JStr(U_b)>> >>)>> >>),
      EmptyDict }

\* each of D URLs once
Once(D) == [j \in 1..D |-> Match(Url(j), JStr(S_MALWARE))]
\* each of D URLs with one type, then the last ones again, latest first, with
\* another type
Twice(D) ==
    [j \in 1..(D + Min(D, MaxRecords)) |->
        IF j <= D THEN Match(Url(j), JStr(S_SOCIAL))
        ELSE Match(Url(2 * D + 1 - j), JStr(S_MALWARE))]
\* each of D URLs once, then the first ones again with the same type
Repeated(D) ==
    [j \in 1..(D + Min(D, MaxRecords)) |->
        Match(Url(IF j <= D THEN j ELSE j - D), JStr(S_MALWARE))]

MatchLists ==
    Seqs(RecordSamples, MaxRecords)
        \cup UNION {{Once(D), Twice(D), Repeated(D)} : D \in 0..MaxDistinct}

BuildArgs == [matches : {JList(ms) : ms \in MatchLists}, batch_total : {1, BATCH_SIZE}]

InitPure ==
    /\ \/ fn = "chunked" /\ arg \in ChunkArgs
       \/ fn = "read_urls" /\ arg \in ReadArgs
       \/ fn = "build_tg_message" /\ arg \in BuildArgs
    /\ ret = Unset
    /\ pc = "call"
    /\ API_KEY = None
    /\ TELEGRAM_BOT_TOKEN = None
    /\ TELEGRAM_CHAT_ID = None
    /\ file = NoFile
    /\ exitCode = -1
    /\ urls = <<>>
    /\ pos = 0
    /\ batch = <<>>
    /\ batchNo = 0
    /\ total = 0
    /\ attempt = 0
    /\ backoff = 0
    /\ result = Unset
    /\ msg = <<>>
    /\ inflight = {}
    /\ posts = 0
    /\ sleeps = <<>>
    /\ log = <<>>
    /\ checked = <<>>
    /\ notified = <<>>
    /\ tgPosts = 0
    /\ raised = None
    /\ answers = <<>>
    /\ matched = <<>>
    /\ failed = <<>>
    /\ leftover = 0
    /\ gsbPosts = 0

run == <<env, coord, hist, count, exitCode, attempt, backoff, result, msg,
         inflight, posts, sleeps, log, notified, tgPosts, raised>>

Call_chunked ==
    /\ pc = "call"
    /\ fn = "chunked"
    /\ ret' = chunked(arg.it, arg.n)
    /\ pc' = "returned"
    /\ UNCHANGED <<fn, arg, run>>

Call_read_urls ==
    /\ pc = "call"
    /\ fn = "read_urls"
    /\ ret' = read_urls(arg)
    /\ pc' = "returned"
    /\ UNCHANGED <<fn, arg, run>>

Call_build_tg_message ==
    /\ pc = "call"
    /\ fn = "build_tg_message"
    /\ ret' = build_tg_message(arg.matches, arg.batch_total)
    /\ pc' = "returned"
    /\ UNCHANGED <<fn, arg, run>>

NextPure ==
    \/ Call_chunked
    \/ Call_read_urls
    \/ Call_build_tg_message

SpecPure == InitPure /\ [][NextPure]_vars

(***************************************************************************)
(* Vocabulary of the properties.                                           *)
(***************************************************************************)
RECURSIVE Sum(_)
Sum(q) == IF q = <<>> THEN 0 ELSE Head(q) + Sum(Tail(q))

\* the answer made find_threats sleep and try again
Retried(a) == a.kind \in {"exception", "transient"}

AllRetried(q) == \A i \in 1..Len(q) : Retried(q[i])

\* find_threats is running
InCall == pc \in {"ft_for", "ft_wait"}

GsbInFlight == \E r \in inflight : r.api = "threatMatches:find"
TgInFlight == \E r \in inflight : r.api = "sendMessage"

Logged(text) == \E i \in 1..Len(log) : log[i].msg = text

(***************************************************************************)
(* C1: a find_threats call makes at most 6 HTTP posts; when every answer   *)
(* is a network failure or a status in {429,500,502,503,504} the call has  *)
(* made exactly 6 posts when it returns, and it returns the empty dict.    *)
(***************************************************************************)
C1_AtMostSixAttempts ==
    /\ posts <= 6
    /\ Len(answers) <= posts
    /\ (pc = "ft_return" /\ AllRetried(answers))
          => (posts = 6 /\ Len(answers) = 6 /\ result = EmptyDict)

C1_Witness ==
    /\ pc = "ft_return"
    /\ posts = 6
    /\ Len(answers) = 6
    /\ AllRetried(answers)
    /\ answers[1].kind = "exception"
    /\ answers[6].kind = "transient"
    /\ result = EmptyDict

(***************************************************************************)
(* C2: for every k in 0..5, when the first k answers are transient         *)
(* failures and answer k+1 is a 200 with a parsable body, the call has     *)
(* returned that parsed body after exactly k+1 posts and has slept         *)
(* 2^k - 1 seconds in total.                                               *)
(***************************************************************************)
C2_SuccessAfterRetries ==
    \A k \in 0..5 :
        (/\ Len(answers) = k + 1
         /\ AllRetried(SubSeq(answers, 1, k))
         /\ answers[k + 1].kind = "ok")
            => /\ ~InCall
               /\ posts = k + 1
               /\ Sum(sleeps) = 2^k - 1
               /\ result = answers[k + 1].val

\* three 503s, then a 200 whose body holds matches: 1+2+4 = 7 seconds slept
C2_Witness ==
    /\ pc = "ft_return"
    /\ Len(answers) = 4
    /\ \A i \in 1..3 : answers[i].kind = "transient"
    /\ answers[4].kind = "ok"
    /\ posts = 4
    /\ sleeps = <<1, 2, 4>>
    /\ Sum(sleeps) = 7
    /\ result = answers[4].val
    /\ HasMatches(result)

(***************************************************************************)
(* C3: within one call the i-th sleep lasts 2^(i-1) seconds and there is   *)
(* one sleep per transient failure, so the call sleeps at most 63 seconds  *)
(* in total, and exactly 63 when all 6 attempts failed transiently.        *)
(***************************************************************************)
C3_SleepSchedule ==
    /\ Len(sleeps) <= 6
    /\ \A i \in 1..Len(sleeps) : sleeps[i] = 2^(i - 1)
    /\ Len(sleeps) = Cardinality({i \in 1..Len(answers) : Retried(answers[i])})
    /\ Sum(sleeps) <= 63
    /\ (Sum(sleeps) = 63) <=> (Len(answers) = 6 /\ AllRetried(answers))

C3_Witness ==
    /\ pc = "ft_return"
    /\ sleeps = <<1, 2, 4, 8, 16, 32>>
    /\ Sum(sleeps) = 63
    /\ Len(answers) = 6
    /\ AllRetried(answers)

(***************************************************************************)
(* C4: an answer whose status is neither 200 nor in {429,500,502,503,504}  *)
(* ends the call at that attempt: it is the last answer, no sleep and no   *)
(* further post follows it, and the result is the empty dict.              *)
(***************************************************************************)
C4_AbortOnOtherStatus ==
    \A j \in 1..Len(answers) :
        answers[j].kind = "other"
            => /\ j = Len(answers)
               /\ posts = j
               /\ Len(sleeps) = j - 1
               /\ ~InCall
               /\ ~GsbInFlight
               /\ result = EmptyDict

\* two transient failures, then a 403
C4_Witness ==
    /\ pc = "ft_return"
    /\ Len(answers) = 3
    /\ answers[3] = [kind |-> "other", status |-> 403]
    /\ posts = 3
    /\ sleeps = <<1, 2>>
    /\ result = EmptyDict

(***************************************************************************)
(* C5: a 200 answer whose body cannot be parsed ends the call at that      *)
(* attempt with the empty dict, without retry or sleep, and main handles   *)
(* the batch as one without matches: no alert, a no-match log line.        *)
(***************************************************************************)
C5_UnparsableBody ==
    \A j \in 1..Len(answers) :
        answers[j].kind = "unparsable"
            => /\ j = Len(answers)
               /\ posts = j
               /\ Len(sleeps) = j - 1
               /\ pc \in {"ft_return", "for_batch", "exit"}
               /\ ~GsbInFlight
               /\ result = EmptyDict
               /\ Logged("Invalid JSON")
               /\ (notified = <<>> \/ notified[Len(notified)] /= batchNo)
               /\ (pc /= "ft_return" => Logged("No matches in batch of %d"))

C5_Witness ==
    /\ pc = "for_batch"
    /\ Len(answers) = 2
    /\ answers[2].kind = "unparsable"
    /\ result = EmptyDict
    /\ sleeps = <<1>>
    /\ Logged("No matches in batch of %d")
    /\ batchNo \notin {notified[i] : i \in 1..Len(notified)}

(***************************************************************************)
(* C6: no exception crosses main: whatever the threat-matching call and    *)
(* the messaging call answer, the process never ends by an uncaught        *)
(* exception raised under main().  The claim is about the outcomes of the  *)
(* two calls: it is stated for the runs whose input can be read.           *)
(***************************************************************************)
C6_NoExceptionEscapesMain == file.error = None => pc /= "crashed"

(***************************************************************************)
(* C7: the log lines of a find_threats call.                               *)
(***************************************************************************)
\* the line find_threats writes for an answer that is not a parsed 200
LineFor(a) ==
    CASE a.kind = "exception" -> "Request failed: %s"
      [] a.kind = "transient" -> "Rate/server error %s. Backoff %ss"
      [] a.kind = "unparsable" -> "Invalid JSON"
      [] a.kind = "other" -> "Unexpected %s: %s"

\* a step in which the API answers a post of the call
Answered == Len(answers') = Len(answers) + 1

LastAnswer == answers'[Len(answers')]

\* the step appends one line with this format string
Appended(text) ==
    /\ Len(log') = Len(log) + 1
    /\ SubSeq(log', 1, Len(log)) = log
    /\ log'[Len(log')].msg = text

\* C7 as claimed: every answer of the API (retry, success, terminal failure)
\* adds a log line, and so does running out of retries.
LogsEveryOutcome ==
    /\ Answered => Len(log') = Len(log) + 1
    /\ (pc = "ft_for" /\ pc' = "ft_return") => Appended("Exceeded retries.")

C7_EveryOutcomeLogged == [][LogsEveryOutcome]_vars

\* C7 as amended: during a call one log line is written for every retry (with
\* the status and the seconds slept, for a retried status) and for every
\* terminal failure (non-retryable status, unparsable body, retries
\* exhausted), and none for the answer that returns a parsed 200 body: the
\* call returns having logged its final outcome unless it returns a parsed
\* body.
LogsRetriesAndFailures ==
    /\ Answered
          => IF LastAnswer.kind = "ok" THEN log' = log
             ELSE /\ Appended(LineFor(LastAnswer))
                  /\ LastAnswer.kind = "transient"
                        => /\ log'[Len(log')].args[1] \in TransientStatuses
                           /\ log'[Len(log')].args[2] = backoff
                           /\ backoff' = 2 * backoff
    /\ (pc = "ft_for" /\ pc' = "ft_return") => Appended("Exceeded retries.")

FinalOutcomeLogged ==
    (pc = "ft_return" /\ answers /= <<>> /\ answers[Len(answers)].kind /= "ok")
        => /\ log /= <<>>
           /\ log[Len(log)].msg = IF AllRetried(answers) THEN "Exceeded retries."
                                  ELSE LineFor(answers[Len(answers)])

C7_RetriesAndFailuresLogged == []FinalOutcomeLogged /\ [][LogsRetriesAndFailures]_vars

\* a failed request and a 503, each retried: the line of the 503 holds the
\* status and the two seconds slept after it
C7_Witness ==
    /\ pc = "ft_for"
    /\ Len(answers) = 2
    /\ answers[1].kind = "exception"
    /\ answers[2].kind = "transient"
    /\ log = <<LogLine("WARNING", "Rate/server error %s. Backoff %ss", <<503, 2>>)>>
    /\ sleeps = <<1, 2>>
    /\ backoff = 4

(***************************************************************************)
(* C8: when a run over batches b1..bm has ended, find_threats was called   *)
(* exactly once per batch, in input order, and send_telegram exactly once  *)
(* for each batch whose result held a non-empty matches list, and for no   *)
(* other batch.                                                            *)
(***************************************************************************)
RunEnded == pc \in {"exit", "crashed"} /\ urls /= <<>>

NumBatches == Len(chunked(urls, BATCH_SIZE))

C8_OncePerBatch ==
    RunEnded
        => /\ checked = [i \in 1..NumBatches |-> i]
           /\ notified = matched

(***************************************************************************)
(* C9: a failed delivery (status >= 400 or an exception of the post) never *)
(* aborts the run: a run in which a delivery failed ends by the final      *)
(* "Total processed" line, with every batch checked and every batch that   *)
(* had matches notified.                                                   *)
(***************************************************************************)
C9_DeliveryFailureNeverAborts ==
    (RunEnded /\ failed /= <<>>)
        => /\ pc = "exit"
           /\ exitCode = 0
           /\ Logged("Finished. Total processed: %d")
           /\ checked = [i \in 1..NumBatches |-> i]
           /\ notified = matched

(***************************************************************************)
(* C10: when the bot token or the chat id is missing, send_telegram makes  *)
(* no HTTP post, logs "Telegram not configured." and returns to main.      *)
(***************************************************************************)
C10_NotConfiguredNoPost ==
    (TELEGRAM_BOT_TOKEN \in {None, ""} \/ TELEGRAM_CHAT_ID \in {None, ""})
        => /\ tgPosts = 0
           /\ ~TgInFlight
           /\ pc /= "tg_wait"
           /\ (notified /= <<>> /\ notified[Len(notified)] = batchNo)
                 => /\ pc \in {"for_batch", "exit"}
                    /\ raised = None
                    /\ Logged("Telegram not configured.")
                    /\ log[Len(log)] = MatchesLine \/ pc = "exit"

\* the token is set and the chat id is not; an alert was handed over
C10_Witness ==
    /\ TELEGRAM_BOT_TOKEN = "x"
    /\ TELEGRAM_CHAT_ID = None
    /\ pc = "for_batch"
    /\ notified /= <<>>
    /\ notified[Len(notified)] = batchNo
    /\ Logged("Telegram not configured.")
    /\ tgPosts = 0
    /\ inflight = {}

(***************************************************************************)
(* C11: when the input yields no entries (the file is missing, is empty    *)
(* or holds only blank lines), no request is ever sent to Safe Browsing or *)
(* to Telegram and no batch is ever formed; and with the API key set the   *)
(* run logs "No URLs to check." and ends with exit code 0.                 *)
(***************************************************************************)
\* the characters of a text that are spaces for Python (c.isspace())
Spaces ==
    {" ", "\t", "\n", "\r", "\f", U000B, U001C, U001D, U001E, U001F, U0085, U00A0,
     U1680}

AllWhitespace(ln) == \A i \in 1..Len(ln) : ln[i] \in Spaces

\* no file, or a readable one that holds whitespace only
NoEntries(f) == ~f.exists \/ (f.error = None /\ AllWhitespace(f.text))

C11_NoEntriesNoCalls ==
    NoEntries(file) =>
        /\ posts = 0 /\ tgPosts = 0 /\ inflight = {}
        /\ checked = <<>> /\ notified = <<>> /\ batchNo = 0
        /\ pc \in {"import", "main", "exit"}
        /\ (pc = "exit" /\ EnvTruthy(API_KEY))
              => /\ exitCode = 0
                 /\ Len(log) = 1
                 /\ log[1].msg = "No URLs to check."

C11_Witness ==
    /\ file.exists
    /\ Len(file.text) >= 2
    /\ \E i \in 1..Len(file.text) : file.text[i] = U1680
    /\ NoEntries(file)
    /\ pc = "exit"
    /\ Logged("No URLs to check.")

(***************************************************************************)
(* C12: chunked(it, n) on a list of N entries with n >= 1 yields exactly   *)
(* ceil(N/n) batches, every batch but the last holds n entries, the last   *)
(* holds between 1 and n, and the batches joined in order are the list.    *)
(***************************************************************************)
Returned(f) == pc = "returned" /\ fn = f

\* k = ceil(N / B)
IsCeil(k, N, B) == k * B >= N /\ (k - 1) * B < N


C12_Batches ==
    Returned("chunked") =>
        /\ IsCeil(Len(ret), Len(arg.it), arg.n)
        /\ \A i \in 1..Len(ret) :
              /\ i < Len(ret) => Len(ret[i]) = arg.n
              /\ Len(ret[i]) >= 1
              /\ Len(ret[i]) <= arg.n
        /\ Concat(ret) = arg.it

C12_Witness ==
    /\ Returned("chunked")
    /\ Len(arg.it) = 5
    /\ arg.n = 2
    /\ Len(ret) = 3
    /\ Len(ret[3]) = 1
    /\ ret[1] /= ret[2]

(***************************************************************************)
(* Vocabulary of the alert: the match records handed to build_tg_message,  *)
(* the URL and the type each record reports, the records that are the      *)
(* first of their URL, and the URL lines of the returned text.             *)
(***************************************************************************)
Records == arg.matches.xs
UrlOf(m) == DictGet(DictGet(m, K_threat, EmptyDict), K_url, JStr(S_unknown))
TypeOf(m) == DictGet(m, K_threatType, JStr(S_UNKNOWN))

FirstSeen == {i \in 1..Len(Records) :
                 \A j \in 1..(i - 1) : UrlOf(Records[j]) /= UrlOf(Records[i])}
NumDistinct == Cardinality(FirstSeen)

\* the k-th record, in list order, that is the first of its URL
NthFirst(k) ==
    Records[CHOOSE i \in FirstSeen : Cardinality({j \in FirstSeen : j < i}) = k - 1]

IsUrlLine(l) == l.kind = "url"
UrlLines == SelectSeq(ret.text, IsUrlLine)

TypesOf(u) == {TypeOf(Records[i]).s : i \in {j \in 1..Len(Records) : UrlOf(Records[j]) = u}}

\* alphabetical order of the threat types of the samples
TypeRank(t) ==
    CASE t = S_MALWARE -> 1
      [] t = S_SOCIAL -> 2
      [] t = S_UNKNOWN -> 3

\* line k of the URL lines is the line of the k-th distinct URL
ShowsUrl(k) ==
    LET l == UrlLines[k]
        u == UrlOf(NthFirst(k))
    IN  /\ l.url = u
        /\ {l.types[i] : i \in 1..Len(l.types)} = TypesOf(u)
        /\ \A a, b \in 1..Len(l.types) :
              a < b => TypeRank(l.types[a]) < TypeRank(l.types[b])

CountLineRight ==
    \E i \in 1..Len(ret.text) :
        /\ ret.text[i] = [kind |-> "count", matches |-> Len(Records),
                          checked |-> arg.batch_total]
        /\ \A j \in 1..Len(ret.text) : ret.text[j].kind = "count" => j = i

Built == Returned("build_tg_message") /\ ret.ok

(***************************************************************************)
(* C13 as stated: the alert shows one line per distinct URL of the list,   *)
(* in first-seen order, each with exactly the types reported for the URL,  *)
(* sorted and without duplicates, and the count line reports the number of *)
(* records and the batch size.                                             *)
(***************************************************************************)
C13_OneLinePerUrl ==
    Built =>
        /\ Len(UrlLines) = NumDistinct
        /\ \A k \in 1..NumDistinct : ShowsUrl(k)
        /\ CountLineRight

(***************************************************************************)
(* C13, amended: the alert shows one line for each of the first 20         *)
(* distinct URLs of the list, in first-seen order, each with exactly the   *)
(* types reported for the URL anywhere in the list, sorted and without     *)
(* duplicates; the count line reports the number of records and the batch  *)
(* size.                                                                   *)
(***************************************************************************)
C13_OneLinePerShownUrl ==
    Built =>
        /\ Len(UrlLines) = Min(NumDistinct, 20)
        /\ \A k \in 1..Min(NumDistinct, 20) : ShowsUrl(k)
        /\ CountLineRight

C13_Witness ==
    /\ Built
    /\ Len(Records) = 3
    /\ arg.batch_total = 500
    /\ Len(UrlLines) = 2
    /\ UrlLines[1].url = JStr(U_a)
    /\ UrlLines[1].types = <<S_MALWARE, S_SOCIAL>>
    /\ UrlLines[2].url = JStr(U_b)
    /\ Records[1] = Match(JStr(U_a), JStr(S_SOCIAL))

(***************************************************************************)
(* C14: for a list with D distinct URLs the alert holds exactly min(D, 20) *)
(* URL lines, those of the first 20 distinct URLs in first-seen order, and *)
(* the truncation marker exactly once when D > 20 and not at all when      *)
(* D <= 20.                                                                *)
(***************************************************************************)
IsMarker(l) == l.kind = "more"
Markers == SelectSeq(ret.text, IsMarker)

C14_CapAndMarker ==
    Built =>
        /\ Len(UrlLines) = Min(NumDistinct, 20)
        /\ \A k \in 1..Len(UrlLines) : UrlLines[k].url = UrlOf(NthFirst(k))
        /\ Len(Markers) = (IF NumDistinct > 20 THEN 1 ELSE 0)

C14_Witness ==
    /\ Built
    /\ NumDistinct = 25
    /\ Len(Records) > 25
    /\ Len(UrlLines) = 20
    /\ UrlLines[20].url = Url(20)
    /\ Len(Markers) = 1

(***************************************************************************)
(* C15: without the API key the process ends with a non-zero exit code     *)
(* before any work (no input read, no request sent, nothing logged); with  *)
(* the key, and an input that can be read, it ends with exit code 0        *)
(* whatever the threat checks and the deliveries came to.                  *)
(***************************************************************************)
Ended == pc \in {"exit", "crashed"}

C15_ExitCodes ==
    /\ ~EnvTruthy(API_KEY) =>
          /\ pc \in {"import", "exit"}
          /\ urls = <<>> /\ checked = <<>> /\ notified = <<>> /\ log = <<>>
          /\ posts = 0 /\ tgPosts = 0 /\ inflight = {}
          /\ pc = "exit" => exitCode /= 0
    /\ (EnvTruthy(API_KEY) /\ file.error = None /\ Ended) => exitCode = 0

(***************************************************************************)
(* C17: when a run over N > 0 entries has ended, its last log line is the  *)
(* total line and the total it reports is N, whatever each threat check    *)
(* and each delivery came to.                                              *)
(***************************************************************************)
C17_TotalLogged ==
    RunEnded =>
        /\ log /= <<>>
        /\ log[Len(log)].msg = "Finished. Total processed: %d"
        /\ log[Len(log)].args = <<Len(urls)>>

(***************************************************************************)
(* C16: read_urls returns one entry per non-blank line of the file, in     *)
(* file order and without removing duplicates; the entry of a line is the  *)
(* trimmed line when that starts with http:// or https://, and the trimmed *)
(* line with http:// in front otherwise; every entry starts with http://   *)
(* or https://, and normalizing an entry again leaves it as it is.  A      *)
(* missing file gives no entry.                                            *)
(***************************************************************************)
\* the line without its leading and trailing whitespace
Trimmed(ln) ==
    LET ink == {i \in 1..Len(ln) : ln[i] \notin Spaces}
    IN  IF ink = {} THEN <<>>
        ELSE SubSeq(ln, CHOOSE i \in ink : \A j \in ink : i <= j,
                        CHOOSE i \in ink : \A j \in ink : i >= j)

HasScheme(s) ==
    \/ Len(s) >= 7 /\ SubSeq(s, 1, 7) = <<"h", "t", "t", "p", ":", "/", "/">>
    \/ Len(s) >= 8 /\ SubSeq(s, 1, 8) = <<"h", "t", "t", "p", "s", ":", "/", "/">>

\* the lines of text t after the line of characters cur: a line ends at "\n",
\* at "\r\n" or at a "\r" alone, and the text after the last line end is a
\* line when it is not empty
RECURSIVE SplitLines(_, _)
SplitLines(t, cur) ==
    IF t = <<>> THEN (IF cur = <<>> THEN <<>> ELSE <<cur>>)
    ELSE IF Head(t) = "\n" THEN <<cur>> \o SplitLines(Tail(t), <<>>)
    ELSE IF Head(t) = "\r"
         THEN <<cur>> \o SplitLines(IF Len(t) > 1 /\ t[2] = "\n"
                                    THEN Tail(Tail(t)) ELSE Tail(t), <<>>)
    ELSE SplitLines(Tail(t), Append(cur, Head(t)))

SrcLines == SplitLines(arg.text, <<>>)

\* the lines of the file that are not blank, in file order
Inked == SelectSeq(SrcLines, LAMBDA ln : ~AllWhitespace(ln))

C16_OneEntryPerLine ==
    (Returned("read_urls") /\ ret.ok) =>
        IF ~arg.exists THEN ret.urls = <<>>
        ELSE /\ arg.error = None
             /\ Len(ret.urls) = Len(Inked)
             /\ \A k \in 1..Len(ret.urls) :
                   LET t == Trimmed(Inked[k]) IN
                   /\ HasScheme(t) => ret.urls[k] = t
                   /\ ~HasScheme(t)
                         => ret.urls[k] = <<"h", "t", "t", "p", ":", "/", "/">> \o t
                   /\ HasScheme(ret.urls[k])
                   /\ normalize(ret.urls[k]) = ret.urls[k]

C16_Witness ==
    /\ Returned("read_urls")
    /\ ret.ok
    /\ Len(SrcLines) = 5
    /\ Len(ret.urls) = 4
    /\ ret.urls[2] = ret.urls[3]
    /\ ret.urls[3] = ret.urls[4]
    /\ SrcLines[1] = <<"\f", "a">>
    /\ SrcLines[3] = <<U1680, "b", U1680>>
    /\ SrcLines[4] = <<U1680>>
    /\ ~HasScheme(Trimmed(SrcLines[2]))
    /\ HasScheme(Trimmed(SrcLines[5]))

(***************************************************************************)
(* C18: batches are handled one after another.  At most one HTTP request   *)
(* is in flight at any time; a threat-matching request is in flight only   *)
(* while find_threats waits for it, and it carries the current batch; a    *)
(* messaging request is in flight only while send_telegram waits for it,   *)
(* for the current batch; the batches are handed to find_threats in order; *)
(* and the next batch is taken, and its first request sent, only when      *)
(* nothing is in flight and main is back at the head of its loop.          *)
(***************************************************************************)
OneAtATime ==
    /\ Cardinality(inflight) <= 1
    /\ GsbInFlight <=> pc = "ft_wait"
    /\ TgInFlight <=> pc = "tg_wait"
    /\ \A r \in inflight :
          r.api = "threatMatches:find" =>
              r.entries = SubSeq(urls, (batchNo - 1) * BATCH_SIZE + 1,
                                 Min(batchNo * BATCH_SIZE, Len(urls)))
    /\ pc = "tg_wait" => (notified /= <<>> /\ notified[Len(notified)] = batchNo)
    /\ checked = [i \in 1..batchNo |-> i]
    /\ \A i \in 1..Len(notified) : notified[i] <= batchNo

InOrder ==
    /\ batchNo' /= batchNo =>
          /\ batchNo' = batchNo + 1
          /\ pc = "for_batch"
          /\ inflight = {} /\ inflight' = {}
          /\ posts' = 0
    /\ (GsbInFlight' /\ ~GsbInFlight) => (inflight = {} /\ batchNo' = batchNo)
    /\ (TgInFlight' /\ ~TgInFlight) => (inflight = {} /\ pc = "ft_return")

C18_OneAfterAnother == []OneAtATime /\ [][InOrder]_vars

C18_Witness ==
    /\ batchNo = 2
    /\ pc = "ft_wait"
    /\ posts = 1
    /\ inflight = {GsbRequest(batch)}
    /\ matched = <<1>>
    /\ notified = <<1>>
    /\ tgPosts = 1

(***************************************************************************)
(* C19: nothing of the backoff of one find_threats call reaches the next.  *)
(* The step that starts the call for a batch sets backoff to 1 and the     *)
(* attempts and sleeps made to none, whatever the previous call left; and  *)
(* all through a call backoff is 1 doubled once per sleep of that call and *)
(* the attempts begun are the posts of that call, at most 6.               *)
(***************************************************************************)
CallState ==
    InCall =>
        /\ backoff = 2^Len(sleeps)
        /\ attempt = posts
        /\ attempt <= 6
        /\ (pc = "ft_for" /\ attempt = 0) => (backoff = 1 /\ sleeps = <<>>)

CallStart ==
    batchNo' /= batchNo =>
        /\ leftover' = backoff
        /\ backoff' = 1
        /\ attempt' = 0
        /\ posts' = 0
        /\ sleeps' = <<>>
        /\ pc' = "ft_for"

C19_FreshBackoff == []CallState /\ [][CallStart]_vars

C19_Witness ==
    /\ batchNo = 2
    /\ pc = "ft_for"
    /\ leftover = 64
    /\ backoff = 1
    /\ attempt = 0
    /\ posts = 0

(***************************************************************************)
(* C20: when every HTTP call is answered or fails within its timeout, a    *)
(* run over N entries ends, having sent at most 6 * ceil(N / 500)          *)
(* threat-matching requests and at most ceil(N / 500) messaging requests,  *)
(* one per alert at most.  Termination is stated on finite runs: before    *)
(* the end a step is always possible, and every step lowers a rank that    *)
(* is never negative, so a run that keeps taking steps ends.               *)
(***************************************************************************)
\* N: the non-blank lines of the file, which are the entries once it is read
Entries ==
    IF pc \in {"import", "main"}
    THEN IF file.error /= None THEN 0
         ELSE Cardinality({i \in 1..Len(file.text) :
                  /\ file.text[i] \notin Spaces
                  /\ \E j \in 0..(i - 1) :
                        /\ j = 0 \/ file.text[j] \in {"\n", "\r"}
                        /\ \A k \in (j + 1)..(i - 1) :
                              file.text[k] \in Spaces \ {"\n", "\r"}})
    ELSE Len(urls)

BatchesOf(n) == (n + 500 - 1) \div 500

\* an upper bound on the steps still to come
Rank ==
    LET later == 20 * (BatchesOf(Entries) - batchNo) IN
    CASE pc = "import" -> later + 3
      [] pc = "main" -> later + 2
      [] pc = "for_batch" -> later + 1
      [] pc = "ft_for" -> later + 2 * (6 - attempt) + 4
      [] pc = "ft_wait" -> later + 2 * (6 - attempt) + 5
      [] pc = "ft_return" -> later + 3
      [] pc = "tg_wait" -> later + 2
      [] Ended -> 0

\* a step is possible
CanStep == ENABLED NextCounted

Bounded ==
    /\ gsbPosts <= 6 * BatchesOf(Entries)
    /\ tgPosts <= BatchesOf(Entries)
    /\ tgPosts <= Len(notified)
    /\ Rank >= 0
    /\ Ended \/ CanStep

C20_TerminatesWithinBudget == []Bounded /\ [][Rank' < Rank]_vars

C20_Witness ==
    /\ pc = "exit"
    /\ Entries = 501
    /\ gsbPosts = 12
    /\ batchNo = 2
    /\ exitCode = 0

====
